---- MODULE Spec2Model ----
(***************************************************************************)
(* Model of ns-puppetmaster: NsApi, NsFormUpdater, NsPuppetUpdater and the *)
(* group loop of src/nspuppetmaster/nspuppetmaster.py.                     *)
(*                                                                         *)
(* The specifications share the state:                                     *)
(*   Spec     the run of main(): one NsApi, one NsFormUpdater and one      *)
(*            NsPuppetUpdater driven by update_puppet_groups over a        *)
(*            configuration drawn in Init;                                 *)
(*   SpecApi  a caller using one NsApi and one NsFormUpdater directly,     *)
(*            calling login, create_session and update_form in any order;  *)
(*   SpecAll  both of them;                                                *)
(*   SpecParse  get_form_params_from_html applied to a page drawn in Init; *)
(*   SpecNames  the run of main() over one group whose name file and name  *)
(*            list are drawn in Init.                                      *)
(* The NationStates server is the environment: every response (headers,    *)
(* page, transport failure) is a nondeterministic input of the action.     *)
(***************************************************************************)
EXTENDS Integers, Sequences, FiniteSets, TLC

\* ---------------------------------------------------------------- bounds
\* Groups in config['puppets'] (Spec).
MaxGroups == 2
\* Calls a direct caller makes (SpecApi).
MaxCalls == 3

\* ------------------------------------------------------ program constants
SETTINGS_UPDATE_SLEEP_TIME == 6

\* ---------------------------------------------------------- Python values
\* Values are tagged with their Python type, so that `!=` between a tuple,
\* a str and a bool is plain (in)equality of the tagged values.
Str(s) == [t |-> "str", v |-> s]
PyFalse == [t |-> "bool", v |-> "False"]
PyNone == [t |-> "NoneType"]
\* One element of dict.items(): a (key, value) tuple.
Tuple(k, val) == [t |-> "tuple", k |-> k, v |-> val]

\* A dict is a function from its keys (TLA+ strings) to tagged values; the
\* insertion order of a Python dict is not modelled.
EmptyDict == [k \in {} |-> PyNone]
DictSet(d, k, val) == [x \in (DOMAIN d) \cup {k} |-> IF x = k THEN val ELSE d[x]]
\* {**a, **b}
DictMerge(a, b) == [x \in (DOMAIN a) \cup (DOMAIN b) |-> IF x \in DOMAIN b THEN b[x] ELSE a[x]]
\* d.items()
Items(d) == {Tuple(k, d[k]) : k \in DOMAIN d}
\* dict(iterable of (key, value) tuples)
DictOf(items) == [k \in {i.k : i \in items} |-> (CHOOSE i \in items : i.k = k).v]

\* ----------------------------------------------------------------- pages
\* An <input> tag.  name = NoAttr: the tag has no name attribute.
NoAttr == "<no attribute>"
Tag(name, type, checked, hasValue, value, inForm) ==
    [name |-> name, type |-> type, checked |-> checked,
     hasValue |-> hasValue, value |-> value, inForm |-> inForm]
\* A page: whether it holds <form name="form">, and its <input> tags in
\* document order (inForm: the tag is inside that form).
Page(hasForm, tags) == [hasForm |-> hasForm, tags |-> tags]

\* The outcome of a function that may raise: err is "none" or the class of
\* the exception, followed for a KeyError by the key that was missing.
Ok(val) == [err |-> "none", val |-> val]
Raised(kind) == [err |-> kind, val |-> PyNone]

\* Mutant: every tag with a value attribute gives its value, checkbox or
\* not, as in utils.NsFormSender.get_form_params_from_html.
RECURSIVE ParseInputs_no_checkbox(_, _)
ParseInputs_no_checkbox(input_tags, form_params) ==
    IF input_tags = <<>> THEN Ok(form_params)
    ELSE LET tag == Head(input_tags)
             rest == Tail(input_tags)
         IN IF tag.hasValue
            THEN IF tag.name = NoAttr THEN Raised("KeyError:name")
                 ELSE ParseInputs_no_checkbox(rest,
                          DictSet(form_params, tag.name, Str(tag.value)))
            ELSE ParseInputs_no_checkbox(rest, form_params)

\* The loop of get_form_params_from_html over the form's input tags.
RECURSIVE ParseInputs(_, _)
ParseInputs(input_tags, form_params) ==
    IF input_tags = <<>> THEN Ok(form_params)
    ELSE LET tag == Head(input_tags)
             rest == Tail(input_tags)
         IN IF tag.type = "checkbox"
            THEN IF tag.checked
                 THEN IF tag.name = NoAttr THEN Raised("KeyError:name")
                      ELSE ParseInputs(rest, DictSet(form_params, tag.name,
                               Str(IF tag.hasValue THEN tag.value ELSE "yes")))
                 ELSE ParseInputs(rest, form_params)
            ELSE IF tag.hasValue
                 THEN IF tag.name = NoAttr THEN Raised("KeyError:name")
                      ELSE ParseInputs(rest, DictSet(form_params, tag.name, Str(tag.value)))
                 ELSE ParseInputs(rest, form_params)

\* Mutant: the inputs of the whole document are taken when the form is
\* missing, as utils.NsFormSender.get_form_params_from_html does.
get_form_params_from_html_whole_document(html) ==
    ParseInputs(IF html.hasForm THEN SelectSeq(html.tags, LAMBDA tag : tag.inForm)
                ELSE html.tags, EmptyDict)

\* soup.find('form', attrs={"name": 'form'}) is None when the page has no
\* such form, and None.find_all raises AttributeError.
get_form_params_from_html(html) ==
    IF ~html.hasForm THEN Raised("AttributeError")
    ELSE ParseInputs(SelectSeq(html.tags, LAMBDA tag : tag.inForm), EmptyDict)

\* --------------------------------------------------------------- objects
\* requests.Session objects and cookie jars are identified by the order of
\* their construction.  main() builds NsApi (session 1, its jar 2) and then
\* NsFormUpdater (session 3, its jar 4).
ApiSessionId == 1
ApiJarId == 2
FormSessionId == 3
FormJarId == 4

\* NsApi.__init__
NsApi == [session |-> ApiSessionId, jar |-> ApiJarId]

\* NsFormUpdater.__init__: current_params is None.  jar is the cookie jar
\* object of self.session and jarPin the value of its 'pin' cookie.
NsFormUpdater ==
    [session |-> FormSessionId, jar |-> FormJarId, jarPin |-> PyNone,
     current_params |-> PyNone]

\* ----------------------------------------------------------- environment
\* Responses to the ping request of NsApi.login: the transport fails, or the
\* response lacks the X-Pin header, or it carries a pin the server has not
\* issued before (issued: the number of pins issued so far).
LoginResponses(issued) ==
    { [ok |-> FALSE, hasPin |-> FALSE, pin |-> 0],
      [ok |-> TRUE, hasPin |-> FALSE, pin |-> 0],
      [ok |-> TRUE, hasPin |-> TRUE, pin |-> issued + 1] }

\* Pages the settings endpoint answers with.
SettingsPageA ==
    Page(TRUE, << Tag("localid", "hidden", FALSE, TRUE, "l1", TRUE),
                  Tag("email", "text", FALSE, TRUE, "a", TRUE),
                  Tag("opt", "checkbox", TRUE, FALSE, "", TRUE) >>)
SettingsPageB ==
    Page(TRUE, << Tag("localid", "hidden", FALSE, TRUE, "l2", TRUE),
                  Tag("email", "text", FALSE, TRUE, "b", TRUE),
                  Tag("opt", "checkbox", FALSE, TRUE, "on", TRUE),
                  Tag("q", "text", FALSE, TRUE, "s", FALSE) >>)
\* A page without the settings form (login page, error page).
NoFormPage == Page(FALSE, << Tag("q", "text", FALSE, TRUE, "s", FALSE) >>)
ServerPages == {SettingsPageA, SettingsPageB, NoFormPage}

\* Responses to the GET of the settings endpoint: the transport fails, or a
\* page arrives.
PageResponses ==
    {[ok |-> FALSE, text |-> NoFormPage]} \cup {[ok |-> TRUE, text |-> p] : p \in ServerPages}
\* Responses to the POST of the settings endpoint.
PostResponses ==
    {[ok |-> FALSE, text |-> NoFormPage]}
        \cup {[ok |-> TRUE, text |-> p] : p \in {SettingsPageB, NoFormPage}}

\* ------------------------------------------------------------------ NsApi
\* Mutant: resp.headers.get('X-Pin'), None without the header.
login_headers_get(nation_name, password, resp) ==
    IF ~resp.ok THEN Raised("ConnectionError")
    ELSE IF ~resp.hasPin THEN Ok(PyNone)
    ELSE Ok(Str(resp.pin))

\* NsApi.login: resp.headers['X-Pin'] raises KeyError without the header.
login(nation_name, password, resp) ==
    IF ~resp.ok THEN Raised("ConnectionError")
    ELSE IF ~resp.hasPin THEN Raised("KeyError:X-Pin")
    ELSE Ok(Str(resp.pin))

\* ---------------------------------------------------------- NsFormUpdater
\* Mutant: the pin is set in the cookie jar the session already has.
create_session_same_jar(self, nation_pin, newJar, resp) ==
    LET withJar == [self EXCEPT !.jarPin = nation_pin]
        parsed == get_form_params_from_html(resp.text)
    IN IF ~resp.ok THEN [self |-> withJar, err |-> "ConnectionError"]
       ELSE IF parsed.err # "none" THEN [self |-> withJar, err |-> parsed.err]
       ELSE [self |-> [withJar EXCEPT !.current_params = parsed.val], err |-> "none"]

\* Mutant: the parsed fields are added to the snapshot the updater has.
create_session_merging(self, nation_pin, newJar, resp) ==
    LET withJar == [self EXCEPT !.jar = newJar, !.jarPin = nation_pin]
        parsed == get_form_params_from_html(resp.text)
    IN IF ~resp.ok THEN [self |-> withJar, err |-> "ConnectionError"]
       ELSE IF parsed.err # "none" THEN [self |-> withJar, err |-> parsed.err]
       ELSE [self |-> [withJar EXCEPT !.current_params =
                          IF self.current_params = PyNone THEN parsed.val
                          ELSE DictMerge(self.current_params, parsed.val)],
             err |-> "none"]

\* Mutant: a pin the updater already holds is kept.
create_session_keeps_pin(self, nation_pin, newJar, resp) ==
    LET withJar == [self EXCEPT !.jar = newJar,
                                !.jarPin = IF self.jarPin = PyNone THEN nation_pin
                                           ELSE self.jarPin]
        parsed == get_form_params_from_html(resp.text)
    IN IF ~resp.ok THEN [self |-> withJar, err |-> "ConnectionError"]
       ELSE IF parsed.err # "none" THEN [self |-> withJar, err |-> parsed.err]
       ELSE [self |-> [withJar EXCEPT !.current_params = parsed.val], err |-> "none"]

\* Mutant: the page is parsed only when the updater has no snapshot yet.
create_session_cached(self, nation_pin, newJar, resp) ==
    LET withJar == [self EXCEPT !.jar = newJar, !.jarPin = nation_pin]
        parsed == get_form_params_from_html(resp.text)
    IN IF ~resp.ok THEN [self |-> withJar, err |-> "ConnectionError"]
       ELSE IF parsed.err # "none" THEN [self |-> withJar, err |-> parsed.err]
       ELSE IF self.current_params # PyNone THEN [self |-> withJar, err |-> "none"]
       ELSE [self |-> [withJar EXCEPT !.current_params = parsed.val], err |-> "none"]

\* NsFormUpdater.create_session: a new cookie jar holding only the pin is
\* installed first, then the page is fetched with it and parsed.
create_session(self, nation_pin, newJar, resp) ==
    LET withJar == [self EXCEPT !.jar = newJar, !.jarPin = nation_pin]
        parsed == get_form_params_from_html(resp.text)
    IN IF ~resp.ok THEN [self |-> withJar, err |-> "ConnectionError"]
       ELSE IF parsed.err # "none" THEN [self |-> withJar, err |-> parsed.err]
       ELSE [self |-> [withJar EXCEPT !.current_params = parsed.val], err |-> "none"]

\* The lambda of update_form: its argument is an element of
\* post_params.items(), a (key, value) tuple.
FilterLambda(value) == value # PyFalse

\* The two assignments to post_params in update_form.
post_params(current_params, new_params) ==
    DictOf({item \in Items(DictMerge(current_params, new_params)) : FilterLambda(item)})

\* Mutant: no sleep.
Sleep_skipped(now, secs) == now

\* time.sleep on the logical clock.
Sleep(now, secs) == now + secs

\* Mutant: the response of the POST is parsed into current_params.
update_form_refreshed(self, new_params, resp, now) ==
    IF self.current_params = PyNone
    THEN [self |-> self, err |-> "TypeError", posted |-> FALSE, body |-> EmptyDict,
          now |-> now, new_params |-> new_params]
    ELSE LET body == post_params(self.current_params, new_params)
             parsed == get_form_params_from_html(resp.text)
         IN IF ~resp.ok
            THEN [self |-> self, err |-> "ConnectionError", posted |-> TRUE,
                  body |-> body, now |-> now, new_params |-> new_params]
            ELSE IF parsed.err # "none"
            THEN [self |-> self, err |-> parsed.err, posted |-> TRUE, body |-> body,
                  now |-> now, new_params |-> new_params]
            ELSE [self |-> [self EXCEPT !.current_params = parsed.val], err |-> "none",
                  posted |-> TRUE, body |-> body,
                  now |-> Sleep(now, SETTINGS_UPDATE_SLEEP_TIME),
                  new_params |-> new_params]

\* Mutant: a missing snapshot counts as an empty one.
update_form_none_as_empty(self, new_params, resp, now) ==
    LET body == post_params(IF self.current_params = PyNone THEN EmptyDict
                            ELSE self.current_params, new_params)
    IN IF ~resp.ok
       THEN [self |-> self, err |-> "ConnectionError", posted |-> TRUE,
             body |-> body, now |-> now, new_params |-> new_params]
       ELSE [self |-> self, err |-> "none", posted |-> TRUE, body |-> body,
             now |-> Sleep(now, SETTINGS_UPDATE_SLEEP_TIME),
                  new_params |-> new_params]

\* Mutant: the merge is made in place, in the caller's new_params.
update_form_in_place(self, new_params, resp, now) ==
    IF self.current_params = PyNone
    THEN [self |-> self, err |-> "TypeError", posted |-> FALSE, body |-> EmptyDict,
          now |-> now, new_params |-> new_params]
    ELSE LET body == post_params(self.current_params, new_params)
         IN IF ~resp.ok
            THEN [self |-> self, err |-> "ConnectionError", posted |-> TRUE,
                  body |-> body, now |-> now, new_params |-> body]
            ELSE [self |-> self, err |-> "none", posted |-> TRUE, body |-> body,
                  now |-> Sleep(now, SETTINGS_UPDATE_SLEEP_TIME),
                  new_params |-> body]

\* NsFormUpdater.update_form.  {**None, ...} raises TypeError before any
\* request is made; the response of the POST is not read.  new_params is
\* the caller's dict as the call leaves it: the merge and the filter build
\* new dicts.
update_form(self, new_params, resp, now) ==
    IF self.current_params = PyNone
    THEN [self |-> self, err |-> "TypeError", posted |-> FALSE, body |-> EmptyDict,
          now |-> now, new_params |-> new_params]
    ELSE LET body == post_params(self.current_params, new_params)
         IN IF ~resp.ok
            THEN [self |-> self, err |-> "ConnectionError", posted |-> TRUE,
                  body |-> body, now |-> now, new_params |-> new_params]
            ELSE [self |-> self, err |-> "none", posted |-> TRUE, body |-> body,
                  now |-> Sleep(now, SETTINGS_UPDATE_SLEEP_TIME),
                  new_params |-> new_params]

\* ------------------------------------------------------------ name lists
\* The text is what file.read() returns: open() in text mode has turned
\* "\r\n" and "\r" into "\n".  str.splitlines breaks a text at "\n" and
\* also at \v, \f, \x1c, \x1d, \x1e, \x85, \u2028 and \u2029; "\f" stands
\* for those here.
LineBoundaries == {"\n", "\f"}

\* str.splitlines over the characters of a text: a line boundary ends a
\* line, and a text that ends with one has no empty last line.
RECURSIVE SplitFrom(_, _, _)
SplitFrom(text, line, lines) ==
    IF text = <<>> THEN (IF line = <<>> THEN lines ELSE Append(lines, line))
    ELSE IF Head(text) \in LineBoundaries
    THEN SplitFrom(Tail(text), <<>>, Append(lines, line))
    ELSE SplitFrom(Tail(text), Append(line, Head(text)), lines)
splitlines(text) == SplitFrom(text, <<>>, <<>>)

\* get_puppet_names_from_file: file is the text of the file.
get_puppet_names_from_file(file) == splitlines(file)

\* Mutant: the flag is set whether or not the group has new_settings.
update_settings_always(group_config) == TRUE

\* The flag update_settings of update_puppet_group.
update_settings(group_config) == group_config.has_new_settings

\* Mutant: group_config.get('password', '').
password_of_default(group_config) ==
    Ok(IF group_config.has_password THEN group_config.password ELSE "")

\* group_config['password'] in update_puppet_group.
password_of(group_config) ==
    IF group_config.has_password THEN Ok(group_config.password)
    ELSE Raised("KeyError:password")

\* Mutant: the inline list is looked up before the file.
get_puppet_names_list_first(group_config) ==
    IF group_config.has_nation_names THEN Ok(group_config.nation_names)
    ELSE IF group_config.has_nation_name_file
    THEN Ok(get_puppet_names_from_file(group_config.nation_name_file))
    ELSE Raised("AppError")

\* get_puppet_names
get_puppet_names(group_config) ==
    IF group_config.has_nation_name_file
    THEN Ok(get_puppet_names_from_file(group_config.nation_name_file))
    ELSE IF group_config.has_nation_names THEN Ok(group_config.nation_names)
    ELSE Raised("AppError")

\* ---------------------------------------------------------- configuration
\* One entry of config['puppets']: has_x says whether key x is in the table.
GroupConfig(has_file, file, has_names, nation_names, has_password, has_settings, new_settings) ==
    [has_nation_name_file |-> has_file, nation_name_file |-> file,
     has_nation_names |-> has_names, nation_names |-> nation_names,
     has_password |-> has_password, password |-> "pw",
     has_new_settings |-> has_settings, new_settings |-> new_settings]

\* Name sources of the groups of a run: <<has file, text, has list, list>>.
\* The text "\n" of the file has one line, the blank name "".
NameFile == <<"\n">>
NameSources ==
    { <<FALSE, <<>>, FALSE, <<>>>>,
      <<FALSE, <<>>, TRUE, <<>>>>,
      <<FALSE, <<>>, TRUE, << <<"a">>, <<"b">> >> >>,
      <<TRUE, NameFile, FALSE, <<>>>>,
      <<TRUE, NameFile, TRUE, << <<"a">> >> >> }

\* new_settings of the groups of a run: a new value for one field and the
\* removal of another.
RunSettings == [email |-> Str("n"), opt |-> PyFalse]

GroupConfigs ==
    { GroupConfig(src[1], src[2], src[3], src[4], pw, st, IF st THEN RunSettings ELSE EmptyDict) :
        src \in NameSources, pw \in BOOLEAN, st \in BOOLEAN }

\* config['puppets'] in file order.
Configs == UNION { [1..k -> GroupConfigs] : k \in 1..MaxGroups }

\* new_params a direct caller passes to update_form: every dict over these
\* keys with a new value or False.
OverrideKeys == {"email", "opt"}
Overrides == UNION { [ks -> {Str("n"), PyFalse}] : ks \in SUBSET OverrideKeys }

\* ------------------------------------------------------------------ state
VARIABLES
    config,        \* config['puppets']: the groups in file order (Spec)
    pc,            \* position of the run, or "api" under SpecApi
    gi,            \* index of the group being processed
    ni,            \* index of the name being processed
    names,         \* the list update_puppet_group iterates over
    form_updater,  \* the NsFormUpdater instance
    nation_pin,    \* NsPuppetUpdater.nation_pin
    netLog,        \* the requests made so far, in order
    err,           \* exception raised by the last step, "none" if it returned
    clock,         \* logical time in seconds
    issued,        \* number of pins the server has issued
    jars,          \* number of session and cookie jar objects constructed
    calls,         \* calls made by the direct caller (SpecApi)
    lastCall,      \* the method the last step called, "none" at the start
    html,          \* the argument of get_form_params_from_html (SpecParse)
    form_params    \* what it returned, None before the call (SpecParse)

vars == <<config, pc, gi, ni, names, form_updater, nation_pin, netLog, err,
          clock, issued, jars, calls, lastCall, html, form_params>>

NoName == <<"?">>

\* One request: op is "login" (the ping GET), "GET" or "POST" (settings
\* endpoint); name, g, n the account it is made for; session and jar the
\* objects used; pin the 'pin' cookie sent; snapshot the current_params of
\* the updater and args the new_params of the call when the request is
\* made; body the POST data; ok whether a response arrived; xpin its
\* X-Pin header and page its page; time the clock at the request.
Event(op, name, g, n, session, jar, pin, snapshot, args, body, ok, xpin, page) ==
    [op |-> op, name |-> name, g |-> g, n |-> n, session |-> session, jar |-> jar,
     pin |-> pin, snapshot |-> snapshot, args |-> args, body |-> body, ok |-> ok,
     xpin |-> xpin, page |-> page, time |-> clock]

\* The request of NsApi.login.
LoginEvent(nation_name, g, n, resp) ==
    Event("login", nation_name, g, n, NsApi.session, NsApi.jar, PyNone, PyNone,
          EmptyDict, EmptyDict, resp.ok,
          IF resp.ok /\ resp.hasPin THEN Str(resp.pin) ELSE PyNone, NoFormPage)

\* The GET of create_session: before and after are the updater before and
\* after the call (the jar is replaced before the request).
GetEvent(name, g, n, before, after, resp) ==
    Event("GET", name, g, n, after.session, after.jar, after.jarPin,
          before.current_params, EmptyDict, EmptyDict, resp.ok, PyNone, resp.text)

\* The POST of update_form.
PostEvent(name, g, n, before, new_params, body, resp) ==
    Event("POST", name, g, n, before.session, before.jar, before.jarPin,
          before.current_params, new_params, body, resp.ok, PyNone, resp.text)

\* Mutant: the exception is caught in the loop, which goes on with the
\* next name.
Uncaught_skip_puppet(g, n) == [pc |-> "login", gi |-> g, ni |-> n + 1]

\* An exception nobody catches unwinds update_puppet_group,
\* update_puppet_groups and main: the run is over.
Uncaught(g, n) == [pc |-> "aborted", gi |-> g, ni |-> n]

\* ------------------------------------------------------- the run of main()
\* main(): the three objects are built once, then update_puppet_groups runs.
Init ==
    /\ config \in Configs
    /\ pc = "group"
    /\ gi = 1
    /\ ni = 1
    /\ names = <<>>
    /\ form_updater = NsFormUpdater
    /\ nation_pin = PyNone
    /\ netLog = <<>>
    /\ err = "none"
    /\ clock = 0
    /\ issued = 0
    /\ jars = FormJarId
    /\ calls = 0
    /\ lastCall = "none"
    /\ html = NoFormPage
    /\ form_params = PyNone

\* The step leaves pc, gi, ni as the uncaught exception decides.
Abort(kind) ==
    /\ err' = kind
    /\ pc' = Uncaught(gi, ni).pc
    /\ gi' = Uncaught(gi, ni).gi
    /\ ni' = Uncaught(gi, ni).ni

\* update_puppet_group up to the first iteration: get_puppet_names.
ResolveGroup ==
    /\ pc = "group"
    /\ gi <= Len(config)
    /\ LET r == get_puppet_names(config[gi])
       IN IF r.err = "none"
          THEN /\ names' = r.val
               /\ ni' = 1
               /\ pc' = "login"
               /\ err' = "none"
               /\ UNCHANGED gi
          ELSE /\ Abort(r.err)
               /\ UNCHANGED names
    /\ lastCall' = "get_puppet_names"
    /\ UNCHANGED <<html, form_params>>
    /\ UNCHANGED <<config, form_updater, nation_pin, netLog, clock, issued, jars, calls>>

\* One iteration up to puppet_updater.login: the password lookup, then
\* NsPuppetUpdater.login.
Login ==
    /\ pc = "login"
    /\ ni <= Len(names)
    /\ LET group_config == config[gi]
           nation_name == names[ni]
           password == password_of(group_config)
       IN IF password.err # "none"
          THEN /\ Abort(password.err)
               /\ UNCHANGED <<nation_pin, netLog, issued>>
          ELSE \E resp \in LoginResponses(issued) :
                  LET r == login(nation_name, password.val, resp)
                  IN /\ netLog' = Append(netLog, LoginEvent(nation_name, gi, ni, resp))
                     /\ issued' = IF resp.ok /\ resp.hasPin THEN issued + 1 ELSE issued
                     /\ IF r.err = "none"
                        THEN /\ nation_pin' = r.val
                             /\ err' = "none"
                             /\ pc' = IF update_settings(group_config) THEN "create" ELSE "login"
                             /\ ni' = IF update_settings(group_config) THEN ni ELSE ni + 1
                             /\ UNCHANGED gi
                        ELSE /\ Abort(r.err)
                             /\ UNCHANGED nation_pin
    /\ lastCall' = "login"
    /\ UNCHANGED <<html, form_params>>
    /\ UNCHANGED <<config, names, form_updater, clock, jars, calls>>

\* NsPuppetUpdater.update_settings, first call: create_session.
CreateSession ==
    /\ pc = "create"
    /\ \E resp \in PageResponses :
          LET r == create_session(form_updater, nation_pin, jars + 1, resp)
          IN /\ form_updater' = r.self
             /\ jars' = jars + 1
             /\ netLog' = Append(netLog,
                    GetEvent(names[ni], gi, ni, form_updater, r.self, resp))
             /\ IF r.err = "none"
                THEN /\ err' = "none"
                     /\ pc' = "update"
                     /\ UNCHANGED <<gi, ni>>
                ELSE Abort(r.err)
    /\ lastCall' = "create_session"
    /\ UNCHANGED <<html, form_params>>
    /\ UNCHANGED <<config, names, nation_pin, clock, issued, calls>>

\* NsPuppetUpdater.update_settings, second call: update_form, and the end of
\* the iteration.  The argument is the group's new_settings dict itself.
UpdateForm ==
    /\ pc = "update"
    /\ \E resp \in PostResponses :
          LET r == update_form(form_updater, config[gi].new_settings, resp, clock)
          IN /\ form_updater' = r.self
             /\ clock' = r.now
             /\ netLog' = IF r.posted
                          THEN Append(netLog,
                                   PostEvent(names[ni], gi, ni, form_updater,
                                             config[gi].new_settings, r.body, resp))
                          ELSE netLog
             /\ config' = [config EXCEPT ![gi].new_settings = r.new_params]
             /\ IF r.err = "none"
                THEN /\ err' = "none"
                     /\ pc' = "login"
                     /\ ni' = ni + 1
                     /\ UNCHANGED gi
                ELSE Abort(r.err)
    /\ lastCall' = "update_form"
    /\ UNCHANGED <<html, form_params>>
    /\ UNCHANGED <<names, nation_pin, issued, jars, calls>>

\* Mutant: update_puppet_groups returns after the group instead of going on
\* with the next one.
NextGroup_returns ==
    /\ pc = "login"
    /\ ni > Len(names)
    /\ pc' = "done"
    /\ UNCHANGED <<html, form_params>>
    /\ UNCHANGED <<config, gi, ni, names, form_updater, nation_pin, netLog, err, clock,
                   issued, jars, calls, lastCall>>

\* The for loop of update_puppet_group is exhausted: update_puppet_groups
\* goes on to the next group.
NextGroup ==
    /\ pc = "login"
    /\ ni > Len(names)
    /\ pc' = "group"
    /\ gi' = gi + 1
    /\ UNCHANGED <<html, form_params>>
    /\ UNCHANGED <<config, ni, names, form_updater, nation_pin, netLog, err, clock,
                   issued, jars, calls, lastCall>>

\* The for loop of update_puppet_groups is exhausted: main returns.
Finish ==
    /\ pc = "group"
    /\ gi > Len(config)
    /\ pc' = "done"
    /\ UNCHANGED <<html, form_params>>
    /\ UNCHANGED <<config, gi, ni, names, form_updater, nation_pin, netLog, err, clock,
                   issued, jars, calls, lastCall>>

Next == ResolveGroup \/ Login \/ CreateSession \/ UpdateForm \/ NextGroup \/ Finish

Spec == Init /\ [][Next]_vars

\* The run is one sequential thread of blocking calls: as long as a step
\* is possible, one is taken (every request is answered or fails).
FairSpec == Spec /\ WF_vars(Next)

\* ------------------------------------------------------- a direct caller
\* A caller that builds one NsApi and one NsFormUpdater and calls their
\* methods in any order; an exception returns control to the caller.
InitApi ==
    /\ config = <<>>
    /\ pc = "api"
    /\ gi = 0
    /\ ni = 0
    /\ names = <<>>
    /\ form_updater = NsFormUpdater
    /\ nation_pin = PyNone
    /\ netLog = <<>>
    /\ err = "none"
    /\ clock = 0
    /\ issued = 0
    /\ jars = FormJarId
    /\ calls = 0
    /\ lastCall = "none"
    /\ html = NoFormPage
    /\ form_params = PyNone

ApiNames == { <<"a">>, <<"b">> }

\* ns_api.login(nation_name, password); the caller keeps the pin returned.
ApiLogin ==
    /\ pc = "api"
    /\ calls < MaxCalls
    /\ \E nation_name \in ApiNames, resp \in LoginResponses(issued) :
          LET r == login(nation_name, "pw", resp)
          IN /\ netLog' = Append(netLog, LoginEvent(nation_name, 0, 0, resp))
             /\ issued' = IF resp.ok /\ resp.hasPin THEN issued + 1 ELSE issued
             /\ err' = r.err
             /\ nation_pin' = IF r.err = "none" THEN r.val ELSE nation_pin
    /\ calls' = calls + 1
    /\ lastCall' = "login"
    /\ UNCHANGED <<html, form_params>>
    /\ UNCHANGED <<config, pc, gi, ni, names, form_updater, clock, jars>>

\* form_updater.create_session(pin) with any pin issued so far, or a pin
\* the server never issued (0).
ApiCreateSession ==
    /\ pc = "api"
    /\ calls < MaxCalls
    /\ \E p \in 0..issued, resp \in PageResponses :
          LET r == create_session(form_updater, Str(p), jars + 1, resp)
          IN /\ form_updater' = r.self
             /\ jars' = jars + 1
             /\ netLog' = Append(netLog, GetEvent(NoName, 0, 0, form_updater, r.self, resp))
             /\ err' = r.err
    /\ calls' = calls + 1
    /\ lastCall' = "create_session"
    /\ UNCHANGED <<html, form_params>>
    /\ UNCHANGED <<config, pc, gi, ni, names, nation_pin, clock, issued>>

\* form_updater.update_form(new_params)
ApiUpdateForm ==
    /\ pc = "api"
    /\ calls < MaxCalls
    /\ \E new_params \in Overrides, resp \in PostResponses :
          LET r == update_form(form_updater, new_params, resp, clock)
          IN /\ form_updater' = r.self
             /\ clock' = r.now
             /\ netLog' = IF r.posted
                          THEN Append(netLog,
                                   PostEvent(NoName, 0, 0, form_updater, new_params,
                                             r.body, resp))
                          ELSE netLog
             /\ err' = r.err
    /\ calls' = calls + 1
    /\ lastCall' = "update_form"
    /\ UNCHANGED <<html, form_params>>
    /\ UNCHANGED <<config, pc, gi, ni, names, nation_pin, issued, jars>>

NextApi == ApiLogin \/ ApiCreateSession \/ ApiUpdateForm

SpecApi == InitApi /\ [][NextApi]_vars

\* ------------------------------------------------ the run over one group
\* Characters of a name file (SpecNames).
MaxFileLen == 3

\* The characters of the name files: a letter, the newline, and a form
\* feed.
FileChars == {"a", "\n", "\f"}
\* The inline name lists.
NameLists == { << <<"b">> >>, << <<"b">>, <<"c">> >> }

\* main() over a configuration of one group with a password, whose name
\* file, name list and new_settings are each present or not.
InitNames ==
    /\ \E has_file \in BOOLEAN, has_names \in BOOLEAN, has_settings \in BOOLEAN :
          \E k \in 0..MaxFileLen, nation_names \in NameLists :
             \E file \in [1..k -> FileChars] :
                /\ has_file \/ k = 0
                /\ config = << GroupConfig(has_file, file, has_names,
                                           IF has_names THEN nation_names ELSE <<>>,
                                           TRUE, has_settings,
                                           IF has_settings THEN RunSettings
                                           ELSE EmptyDict) >>
    /\ pc = "group"
    /\ gi = 1
    /\ ni = 1
    /\ names = <<>>
    /\ form_updater = NsFormUpdater
    /\ nation_pin = PyNone
    /\ netLog = <<>>
    /\ err = "none"
    /\ clock = 0
    /\ issued = 0
    /\ jars = FormJarId
    /\ calls = 0
    /\ lastCall = "none"
    /\ html = NoFormPage
    /\ form_params = PyNone

SpecNames == InitNames /\ [][Next]_vars

\* Both uses of the classes: the run of main() and the direct caller.
InitAll == Init \/ InitApi
NextAll == Next \/ NextApi
SpecAll == InitAll /\ [][NextAll]_vars

\* ------------------------------------------- get_form_params_from_html
\* Tags per page (SpecParse).
MaxTags == 2

\* The <input> tags of the pages: a checkbox, checked or not, or a text
\* input, each with or without a value attribute, inside or outside the
\* form, and two tags without a name attribute.
ParseValues == {<<FALSE, "">>, <<TRUE, "v">>, <<TRUE, "w">>}
ParseTags ==
    { Tag(name, "checkbox", checked, val[1], val[2], inForm) :
        name \in {"x", "y"}, checked \in BOOLEAN, val \in ParseValues, inForm \in BOOLEAN }
    \cup { Tag(name, "text", FALSE, val[1], val[2], inForm) :
        name \in {"x", "y"}, val \in ParseValues, inForm \in BOOLEAN }
    \cup { Tag(NoAttr, "text", FALSE, TRUE, "v", TRUE),
           Tag(NoAttr, "checkbox", FALSE, TRUE, "v", TRUE) }

\* A page with up to MaxTags of these tags; a page without the form has no
\* tag inside it.
InitParse ==
    /\ \E k \in 0..MaxTags, hasForm \in BOOLEAN :
          \E tags \in [1..k -> ParseTags] :
             /\ hasForm \/ \A i \in 1..k : ~tags[i].inForm
             /\ html = Page(hasForm, tags)
    /\ form_params = PyNone
    /\ pc = "parse"
    /\ config = <<>>
    /\ gi = 0
    /\ ni = 0
    /\ names = <<>>
    /\ form_updater = NsFormUpdater
    /\ nation_pin = PyNone
    /\ netLog = <<>>
    /\ err = "none"
    /\ clock = 0
    /\ issued = 0
    /\ jars = FormJarId
    /\ calls = 0
    /\ lastCall = "none"

\* NsFormUpdater.get_form_params_from_html(html)
ParseHtml ==
    /\ pc = "parse"
    /\ LET r == get_form_params_from_html(html)
       IN /\ form_params' = r.val
          /\ err' = r.err
    /\ pc' = "parsed"
    /\ lastCall' = "get_form_params_from_html"
    /\ UNCHANGED <<html, config, gi, ni, names, form_updater, nation_pin, netLog, clock,
                   issued, jars, calls>>

NextParse == ParseHtml

SpecParse == InitParse /\ [][NextParse]_vars

\* ================================================================ claims
LastEvent == netLog[Len(netLog)]
Posts == {i \in DOMAIN netLog : netLog[i].op = "POST"}
Gets == {i \in DOMAIN netLog : netLog[i].op = "GET"}
Logins == {i \in DOMAIN netLog : netLog[i].op = "login"}

\* The GETs before position i whose page create_session parsed into a
\* snapshot, and the snapshot the latest of them left (None without one).
ParsedGets(i) ==
    {j \in Gets : j < i /\ netLog[j].ok /\ get_form_params_from_html(netLog[j].page).err = "none"}
Max(S) == CHOOSE x \in S : \A y \in S : y <= x
SnapshotOfLatestGet(i) ==
    IF ParsedGets(i) = {} THEN PyNone
    ELSE get_form_params_from_html(netLog[Max(ParsedGets(i))].page).val

\* The merge of section 4.2: S's entries that O does not override, O's
\* entries that are not False, and no key that O maps to False.
MergeContract(S, O, body) ==
    /\ \A k \in (DOMAIN S) \ (DOMAIN O) : k \in DOMAIN body /\ body[k] = S[k]
    /\ \A k \in DOMAIN O : O[k] # PyFalse => (k \in DOMAIN body /\ body[k] = O[k])
    /\ \A k \in DOMAIN O : O[k] = PyFalse => k \notin DOMAIN body

\* C1: the body of every POST of update_form holds every key of the
\* snapshot that the override does not name (with the snapshot's value),
\* every key of the override whose value is not False (with the override's
\* value), and no key that the override maps to False.
C1_BodyIsMerge ==
    \A i \in Posts : MergeContract(netLog[i].snapshot, netLog[i].args, netLog[i].body)

\* C2, as claimed: after a successful update_form the snapshot is the
\* fields parsed from the response to its POST.
C2_SnapshotFromPostResponse ==
    (lastCall = "update_form" /\ err = "none"
        /\ get_form_params_from_html(LastEvent.page).err = "none")
    => form_updater.current_params = get_form_params_from_html(LastEvent.page).val

\* C2, amended: update_form never replaces the snapshot; at every moment,
\* so at the start of every update_form as well, the snapshot is the
\* fields parsed from the response to the latest GET of create_session
\* that held the form, whatever the POSTs since then answered.
C2_SnapshotFromLatestGet ==
    /\ form_updater.current_params = SnapshotOfLatestGet(Len(netLog) + 1)
    /\ \A i \in Posts : netLog[i].snapshot = SnapshotOfLatestGet(i)

\* C2 witness: a second update_form right after a successful one whose
\* response held other fields than the snapshot.
C2_Witness ==
    /\ Len(netLog) = 3
    /\ netLog[2].op = "POST" /\ netLog[2].ok
    /\ netLog[3].op = "POST"
    /\ get_form_params_from_html(netLog[2].page).err = "none"
    /\ get_form_params_from_html(netLog[2].page).val # netLog[3].snapshot

NoPostYet == Posts = {}

\* C3, as claimed: update_form on an updater whose create_session never
\* succeeded fails with SessionError, without a POST.
C3_UpdateBeforeCreateSessionError ==
    (lastCall = "update_form" /\ form_updater.current_params = PyNone)
    => (err = "SessionError" /\ NoPostYet)

\* C3, amended: update_form on an updater whose create_session never
\* succeeded (current_params is None) always fails, with TypeError; it
\* makes no POST, does not sleep, and never returns normally.
C3_UpdateBeforeCreateTypeError ==
    (lastCall = "update_form" /\ form_updater.current_params = PyNone)
    => (err = "TypeError" /\ NoPostYet /\ clock = 0)

\* C3 witness: update_form was called before any create_session succeeded.
C3_Witness ==
    /\ lastCall = "update_form"
    /\ form_updater.current_params = PyNone
    /\ err # "none"

\* The account a request is made for.
Account(i) == <<netLog[i].g, netLog[i].n>>
FormRequests == Gets \cup Posts

\* C4, as claimed: no session object serves requests of two accounts.
C4_FreshSessionPerAccount ==
    \A i, j \in DOMAIN netLog :
        Account(i) # Account(j) => netLog[i].session # netLog[j].session

\* C4, amended: main builds one NsApi and one NsFormUpdater and every
\* account goes through them, so all logins share one HTTP client and its
\* cookie jar and all GETs and POSTs share one HTTP client; what is new
\* for each account is the cookie jar of that client, which create_session
\* replaces, so no two accounts' GETs or POSTs use the same jar.
C4_OneClientFreshJar ==
    /\ \A i \in Logins : netLog[i].session = ApiSessionId /\ netLog[i].jar = ApiJarId
    /\ \A i \in FormRequests : netLog[i].session = FormSessionId
    /\ \A i, j \in FormRequests : Account(i) # Account(j) => netLog[i].jar # netLog[j].jar

\* C4 witness: two accounts have been through create_session.
C4_Witness == \E i, j \in Gets : Account(i) # Account(j)

HasNameSource(group_config) ==
    group_config.has_nation_name_file \/ group_config.has_nation_names
ConfigErrors == {"AppError", "KeyError:password"}

\* C5, as claimed: when a configuration error is reported, no login, GET
\* or POST has happened in the run.
C5_ConfigErrorBeforeAnyRequest == err \in ConfigErrors => netLog = <<>>

\* C5, amended: a group is checked when its turn comes.  A group without a
\* name source raises AppError, and a group without a password raises
\* KeyError at its first name, before any login, GET or POST for that
\* group, and the run aborts; the requests of the groups before it have
\* been made by then.  No request is ever made for a group that lacks a
\* name source or a password.
C5_ConfigErrorBeforeGroupRequests ==
    /\ err \in ConfigErrors
       => (pc = "aborted" /\ \A i \in DOMAIN netLog : netLog[i].g < gi)
    /\ err = "KeyError:password" => ni = 1
    /\ (gi \in DOMAIN config /\ pc # "group" /\ ~HasNameSource(config[gi]))
       => (err = "AppError" /\ pc = "aborted")
    /\ \A i \in DOMAIN netLog :
          HasNameSource(config[netLog[i].g]) /\ config[netLog[i].g].has_password

\* C5 witness: a configuration error reported after requests of an earlier
\* group.
C5_Witness == err \in ConfigErrors /\ netLog # <<>>

\* The pin of the latest login whose response carried one (None without).
PinnedLogins == {i \in Logins : netLog[i].xpin # PyNone}
PinOfLatestLogin ==
    IF PinnedLogins = {} THEN PyNone ELSE netLog[Max(PinnedLogins)].xpin
LoginWithoutPinHeader ==
    lastCall = "login" /\ LastEvent.op = "login" /\ LastEvent.ok /\ LastEvent.xpin = PyNone

\* C6, as claimed: login fails with AuthError when the response has no
\* X-Pin header.
C6_NoHeaderAuthError == LoginWithoutPinHeader => err = "AuthError"

\* C6, amended: login fails whenever the response has no X-Pin header,
\* with the KeyError of the header lookup, and returns no pin: the pin the
\* caller holds is still the one of the latest login that carried one.
C6_NoHeaderKeyError ==
    LoginWithoutPinHeader => (err = "KeyError:X-Pin" /\ nation_pin = PinOfLatestLogin)

\* C6 witness: a login answered without the header, after one with it.
C6_Witness == LoginWithoutPinHeader /\ nation_pin # PyNone

CreateSessionWithoutForm ==
    lastCall = "create_session" /\ LastEvent.ok /\ ~LastEvent.page.hasForm

\* C7, as claimed: create_session fails with SessionError when the page
\* has no form, and the page gives no snapshot.
C7_NoFormSessionError ==
    CreateSessionWithoutForm
    => (err = "SessionError" /\ form_updater.current_params = LastEvent.snapshot)

\* C7, amended: create_session fails whenever the fetched page has no
\* form named 'form', with the AttributeError of None.find_all, and
\* current_params stays what it was before the call: None, or the snapshot
\* of an earlier create_session.
C7_NoFormAttributeError ==
    CreateSessionWithoutForm
    => (err = "AttributeError" /\ form_updater.current_params = LastEvent.snapshot)

\* C7 witness: create_session got a page without the form.
C7_Witness == CreateSessionWithoutForm /\ err # "none"

\* C8: nothing catches an exception: once a step has failed the run is
\* over, and no login, GET or POST follows for any account or group.
C8_FirstFailureEndsRun ==
    /\ [](err # "none" => pc = "aborted")
    /\ [][err # "none" => (netLog' = netLog /\ pc' = "aborted")]_vars

\* C8 witness: a request failed while accounts were still to be processed.
C8_Witness ==
    /\ err # "none"
    /\ netLog # <<>>
    /\ (ni < Len(names) \/ gi < Len(config))

GroupEvents(g) == SelectSeq(netLog, LAMBDA e : e.g = g)

\* C9: for a group with new_settings that was processed without a
\* failure, the requests are login, GET, POST for each name in list order,
\* one of each per name, and the body of each POST is the snapshot of that
\* account's GET with the override applied as section 4.2 defines it.
C9_LoginCreateUpdatePerAccount ==
    \A g \in DOMAIN config :
        (gi > g /\ config[g].has_new_settings)
        => LET ev == GroupEvents(g)
               puppet_names == get_puppet_names(config[g]).val
           IN /\ Len(ev) = 3 * Len(puppet_names)
              /\ \A n \in DOMAIN puppet_names :
                    /\ ev[3 * n - 2].op = "login"
                    /\ ev[3 * n - 1].op = "GET"
                    /\ ev[3 * n].op = "POST"
                    /\ \A k \in {3 * n - 2, 3 * n - 1, 3 * n} :
                          ev[k].n = n /\ ev[k].name = puppet_names[n]
                    /\ MergeContract(get_form_params_from_html(ev[3 * n - 1].page).val,
                                     config[g].new_settings, ev[3 * n].body)

\* C10: every successful update_form sleeps SETTINGS_UPDATE_SLEEP_TIME
\* once, after its POST and before it returns, so any POST made after a
\* successful one is at least that much later on the clock.
C10_DelayAfterEachPost ==
    /\ clock = SETTINGS_UPDATE_SLEEP_TIME * Cardinality({i \in Posts : netLog[i].ok})
    /\ \A i, j \in Posts :
          (i < j /\ netLog[i].ok)
          => netLog[j].time >= netLog[i].time + SETTINGS_UPDATE_SLEEP_TIME

\* C10 witness: two POSTs, the first successful.
C10_Witness == \E i, j \in Posts : i < j /\ netLog[i].ok

\* The <input> tags inside the form, and what section 4.2 lets a tag
\* contribute: a checkbox its value (or "yes") when it is checked, any
\* other input its value when it has the attribute.
FormTags(page) == SelectSeq(page.tags, LAMBDA tag : tag.inForm)
Contributes(tag) == IF tag.type = "checkbox" THEN tag.checked ELSE tag.hasValue
Contribution(tag) ==
    Str(IF tag.type = "checkbox" /\ ~tag.hasValue THEN "yes" ELSE tag.value)
Contributors(page, k) ==
    {i \in DOMAIN FormTags(page) : Contributes(FormTags(page)[i]) /\ FormTags(page)[i].name = k}

\* C11: the fields get_form_params_from_html returns are exactly the names
\* of the form's inputs that contribute, a checkbox only when checked (its
\* value attribute, "yes" without one), another input only when it has a
\* value attribute; each field has the contribution of the last such input
\* of that name.  An unchecked checkbox adds nothing.
C11_CheckboxSemantics ==
    (pc = "parsed" /\ err = "none")
    => /\ DOMAIN form_params =
              {FormTags(html)[i].name :
                  i \in {j \in DOMAIN FormTags(html) : Contributes(FormTags(html)[j])}}
       /\ \A k \in DOMAIN form_params :
              form_params[k] = Contribution(FormTags(html)[Max(Contributors(html, k))])

\* C11 witness: a form with a checked checkbox without value attribute and
\* an unchecked checkbox with one has been parsed.
C11_Witness ==
    /\ pc = "parsed"
    /\ err = "none"
    /\ \E i, j \in DOMAIN html.tags :
          /\ html.tags[i].inForm /\ html.tags[i].type = "checkbox"
          /\ html.tags[i].checked /\ ~html.tags[i].hasValue
          /\ html.tags[j].inForm /\ html.tags[j].type = "checkbox"
          /\ ~html.tags[j].checked /\ html.tags[j].hasValue
          /\ html.tags[i].name # html.tags[j].name
          /\ form_params = [k \in {html.tags[i].name} |-> Str("yes")]

NamesOf(g) == get_puppet_names(config[g]).val

\* Every resolved name of every group has exactly one login, the logins
\* are those and no others, and they come in the order of the groups and,
\* within a group, of its names.
LoginsAreTheNamesInOrder ==
    /\ \A i \in Logins :
          /\ netLog[i].g \in DOMAIN config
          /\ get_puppet_names(config[netLog[i].g]).err = "none"
          /\ netLog[i].n \in DOMAIN NamesOf(netLog[i].g)
          /\ netLog[i].name = NamesOf(netLog[i].g)[netLog[i].n]
    /\ \A g \in DOMAIN config : \A n \in DOMAIN NamesOf(g) :
          Cardinality({i \in Logins : Account(i) = <<g, n>>}) = 1
    /\ \A i, j \in Logins :
          i < j => \/ netLog[i].g < netLog[j].g
                   \/ (netLog[i].g = netLog[j].g /\ netLog[i].n < netLog[j].n)

\* C13: a run in which no step fails comes to its end, and at the end
\* every group has been processed: each resolved name was logged in
\* exactly once, in the order of the groups and of the names of a group.
C13_RunProcessesEveryGroup ==
    /\ <>(pc = "done" \/ err # "none")
    /\ [](pc = "done" => (err = "none" /\ gi = Len(config) + 1 /\ LoginsAreTheNamesInOrder))

\* C13 witness: a run of two groups with names has come to its end.
C13_Witness ==
    /\ pc = "done"
    /\ \E i, j \in Logins : netLog[i].g # netLog[j].g

\* C14: no GET and no POST of the settings endpoint is ever made for an
\* account of a group without new_settings; such a group has logins only.
C14_NoSettingsNoFormRequests ==
    \A i \in DOMAIN netLog :
        ~config[netLog[i].g].has_new_settings => netLog[i].op = "login"

\* C14 witness: a group without new_settings has been processed to its
\* end, with a login that returned.
C14_Witness ==
    \E i \in Logins :
        /\ ~config[netLog[i].g].has_new_settings
        /\ netLog[i].xpin # PyNone
        /\ gi > netLog[i].g

\* The lines of a text file: one for each newline, and one more for
\* characters after the last newline.
LineCount(text) ==
    Cardinality({i \in DOMAIN text : text[i] = "\n"})
        + (IF text # <<>> /\ text[Len(text)] # "\n" THEN 1 ELSE 0)

\* C15: when the names come from a file, a run without failure makes as
\* many logins as the file has lines, blank ones included.
C15_OneLoginPerLine ==
    (pc = "done" /\ config[1].has_nation_name_file)
    => Cardinality(Logins) = LineCount(config[1].nation_name_file)

\* C16: every GET and POST made for an account carries the pin that the
\* login of that same account returned; an account has one login, and an
\* account whose login returned no pin has no GET or POST at all.
C16_PinIsOwnLogin ==
    /\ \A i, j \in Logins : Account(i) = Account(j) => i = j
    /\ \A i \in FormRequests :
          \E j \in Logins :
             /\ j < i
             /\ Account(j) = Account(i)
             /\ netLog[j].xpin # PyNone
             /\ netLog[i].pin = netLog[j].xpin

\* C16 witness: two accounts were submitted with different pins, and the
\* login of a later account has just failed.
C16_Witness ==
    /\ \E i, j \in Posts : Account(i) # Account(j) /\ netLog[i].pin # netLog[j].pin
    /\ LastEvent.op = "login"
    /\ LastEvent.xpin = PyNone
    /\ pc = "aborted"

\* C17: the request before every POST is the GET of create_session for the
\* same account, it was answered with a page holding the form, and the
\* snapshot merged into the POST is the fields parsed from that page.
C17_PostFollowsOwnGet ==
    \A i \in Posts :
        /\ i > 1
        /\ netLog[i - 1].op = "GET"
        /\ Account(i - 1) = Account(i)
        /\ netLog[i - 1].ok
        /\ get_form_params_from_html(netLog[i - 1].page).err = "none"
        /\ netLog[i].snapshot = get_form_params_from_html(netLog[i - 1].page).val

\* C17 witness: two accounts were submitted, each with another snapshot.
C17_Witness ==
    \E i, j \in Posts :
        i < j /\ Account(i) # Account(j) /\ netLog[i].snapshot # netLog[j].snapshot

\* C18: the new_settings of a group are, at every moment, the override
\* that each POST of that group was called with: update_form has not
\* changed them, and all accounts of the group were given the same one.
C18_OverrideUnchanged ==
    \A i \in Posts : config[netLog[i].g].new_settings = netLog[i].args

\* C18 witness: two accounts of one group were submitted, and the body
\* submitted differs from the override.
C18_Witness ==
    \E i, j \in Posts :
        /\ i < j
        /\ netLog[i].g = netLog[j].g
        /\ netLog[i].n # netLog[j].n
        /\ netLog[i].body # netLog[i].args

\* The group of SpecNames has been resolved.
Resolved == pc # "group" \/ gi > 1

\* The names of the logins made so far are the first names of list.
LoginsAreFrom(list) ==
    /\ Cardinality(Logins) <= Len(list)
    /\ \A i \in Logins : netLog[i].n \in DOMAIN list /\ netLog[i].name = list[netLog[i].n]
    /\ pc = "done" => Cardinality(Logins) = Len(list)

\* C19: with a name file the logins are for the names of the file, whether
\* or not there is an inline list; with an inline list only they are for
\* that list; with neither the resolution raises AppError and there is no
\* login.
C19_FileThenListThenError ==
    LET c == config[1]
    IN /\ c.has_nation_name_file
          => /\ LoginsAreFrom(get_puppet_names_from_file(c.nation_name_file))
             /\ err # "AppError"
       /\ (~c.has_nation_name_file /\ c.has_nation_names)
          => /\ LoginsAreFrom(c.nation_names)
             /\ err # "AppError"
       /\ (~c.has_nation_name_file /\ ~c.has_nation_names)
          => /\ Logins = {}
             /\ Resolved => (err = "AppError" /\ pc = "aborted")

\* C19 witness: a group with a name file and another inline list has been
\* run to the end, with a login.
C19_Witness ==
    /\ pc = "done"
    /\ config[1].has_nation_name_file
    /\ config[1].has_nation_names
    /\ get_puppet_names_from_file(config[1].nation_name_file) # config[1].nation_names
    /\ Logins # {}

====
